---------------------------- MODULE Spec2Model ----------------------------
(***************************************************************************)
(* A model of the test-orchestration engine of src/framework.py (and its   *)
(* older copy src/testing.py): Suite, Test, Runner, _Function, _Helper and *)
(* the expect() scope.  The user functions and helper classes that are     *)
(* registered are the ones src/tests.py registers.                         *)
(*                                                                         *)
(* The sources are Python 2 (print statements, __nonzero__, getargspec):   *)
(* the truth value of a Result is what __nonzero__ returns.                *)
(***************************************************************************)
EXTENDS Integers, Sequences, FiniteSets, TLC

\* Bounds of the model.
MaxTests == 3
MaxSkips == 1
MaxRuns == 1
MaxSuites == 2
MaxDepth == 2
MaxScopes == 2

VARIABLES
    \* Suite (src/framework.py:16-27)
    stop_on_error, finished, tests, skips, results, setup, teardown, helper,
    \* Runner (src/framework.py:159-169)
    successes, failures, test, first_failure, num_tests, num_skips,
    \* the progress sink and standard output, as written by the Runner
    sink,
    \* control: where the running call stands
    pc, callback, queue, index, result, runs,
    \* history of the current Suite.run: invocations of user functions,
    \* helper instances made, len(_results) when it started
    calls, instances, base,
    \* the exception the call raised to its caller (pc = "raised")
    error,
    \* TRUE once a setup, teardown or helper was bound on a suite that
    \* already held a test
    rebound,
    \* what an iteration over the suite has yielded (pc = "iterated")
    yielded,
    \* the output channel of the process: the stack of open capture scopes,
    \* each with the lines it has captured; the innermost is the last
    channel,
    \* expect(): the stack of open scopes, what is propagating, the outcome
    phase, scopes, raising, outcome

suiteVars == <<stop_on_error, finished, tests, skips, results, setup, teardown, helper>>
runnerVars == <<successes, failures, test, first_failure, num_tests, num_skips>>
controlVars == <<pc, callback, queue, index, result, runs>>
historyVars == <<calls, instances, base>>
expectVars == <<phase, scopes, raising, outcome>>
vars == <<suiteVars, runnerVars, sink, controlVars, historyVars, error, rebound,
          yielded, channel, expectVars>>

-----------------------------------------------------------------------------
\* Exceptions.  An exception is a record of its kind (class) and its message.

NoError == [kind |-> "none", message |-> <<>>]

Exc(kind, message) == [kind |-> kind, message |-> message]

\* The classes used, with Python 2's direct base class of each.
Kinds == {"ZeroDivisionError", "OverflowError", "ArithmeticError", "KeyError",
          "AttributeError", "ValueError", "AssertionError"}

BaseOf(k) ==
    CASE k \in {"ZeroDivisionError", "OverflowError"} -> "ArithmeticError"
      [] OTHER -> "StandardError"

\* isinstance(exception of kind k, class e): what an except clause matches.
IsInstance(k, e) == k = e \/ BaseOf(k) = e

-----------------------------------------------------------------------------
\* The user functions and helper classes of src/tests.py.

NoAttr == "<no attribute>"
HelperState == "Using a helper object."
CustomState == "Using a custom helper object."

\* inspect.getargspec(function)[0]: the number of declared parameters.
NumArgs(f) ==
    CASE f \in {"lambda", "print_status", "raise_exception"} -> 0
      [] f \in {"print_status_with_helper", "setup_with_helper",
                "teardown_with_helper"} -> 1
      [] f = "illegal_test_function" -> 2

\* What a call of the function does: the lines it prints, the exception kind
\* it raises ("none" if it returns) and the state attribute of the helper it
\* was given afterwards.  s is the state attribute of the helper passed.
Body(f, s) ==
    CASE f = "lambda" ->
            [out |-> <<>>, raised |-> "none", state |-> s]
      [] f = "print_status" ->
            [out |-> <<"Successful test executed.">>, raised |-> "none", state |-> s]
      [] f = "raise_exception" ->
            [out |-> <<"Unsuccessful test executed.">>,
             raised |-> "ZeroDivisionError", state |-> s]
      [] f = "print_status_with_helper" ->
            IF s = NoAttr
            THEN [out |-> <<>>, raised |-> "AttributeError", state |-> s]
            ELSE [out |-> <<s, "Successful test executed.">>,
                  raised |-> "none", state |-> s]
      [] f = "setup_with_helper" ->
            [out |-> <<"Setting up a helper object.">>, raised |-> "none",
             state |-> HelperState]
      [] f = "teardown_with_helper" ->
            IF s = NoAttr
            THEN [out |-> <<"Tearing down a helper object.">>,
                  raised |-> "AttributeError", state |-> s]
            ELSE [out |-> <<"Tearing down a helper object.">>,
                  raised |-> "none", state |-> NoAttr]

\* The functions the model registers in each role.
TestFunctions == {"print_status", "print_status_with_helper", "raise_exception",
                  "illegal_test_function"}
SetupFunctions == {"setup_with_helper", "raise_exception", "illegal_test_function"}
TeardownFunctions == {"teardown_with_helper", "raise_exception",
                      "illegal_test_function"}
SkipFunctions == {"print_status", "illegal_test_function"}

\* The helper classes: cls() of each.
HelperClasses == {"CustomHelper", "IllegalCustomHelper"}

Construct(cls) ==
    CASE cls = "BlankObject" -> [raised |-> "none", state |-> NoAttr]
      [] cls = "CustomHelper" -> [raised |-> "none", state |-> CustomState]
      [] cls = "IllegalCustomHelper" -> [raised |-> "TypeError", state |-> NoAttr]


-----------------------------------------------------------------------------
\* _Function: a wrapped callback (src/framework.py:228-252).

\* Mutant: the check of the parameter count is lost.
ArityOkAny(f) == TRUE

\* _Function.__init__ raises for any other number of parameters than 0 or 1.
ArityOk(f) == NumArgs(f) \in {0, 1}

\* str.title() of the role tags.
RoleTitle(role) ==
    CASE role = "test" -> "Test"
      [] role = "skipped" -> "Skipped"
      [] role = "setup" -> "Setup"
      [] role = "teardown" -> "Teardown"
      [] role = "null" -> "Null"

ArityError(f, role) ==
    Exc("ValueError", <<RoleTitle(role), "function", f \o "()",
                        "must accept either 0 or 1 arguments.">>)

FunctionInit(f, role) ==
    [function |-> f, name |-> f, role |-> role, use_helper |-> (NumArgs(f) = 1)]

\* _Function.null()
NullFunction == FunctionInit("lambda", "null")

\* Mutant: the helper is passed whatever use_helper says.
FunctionCallWithHelper(fn, h) == Body(fn.function, h.state) @@ [arg |-> h.id]

\* _Function.__call__(helper): the helper is passed only if use_helper.
\* h is the helper instance [id, state]; arg is the id of the instance the
\* callback received, 0 if it was called without arguments.
FunctionCall(fn, h) ==
    IF fn.use_helper
    THEN Body(fn.function, h.state) @@ [arg |-> h.id]
    ELSE [Body(fn.function, NoAttr) EXCEPT !.state = h.state] @@ [arg |-> 0]

-----------------------------------------------------------------------------
\* _Helper (src/framework.py:255-271)

HelperInit(cls) == [cls |-> cls, name |-> cls]

\* _Helper.null()
NullHelper == HelperInit("BlankObject")

\* _Helper.instantiate(): any error of the constructor becomes a ValueError.
InstantiateError(hf) ==
    Exc("ValueError", <<"Unable to instantiate a", hf.name \o "()", "helper.">>)

\* Mutant: there is no try block, the constructor's own error passes.
InstantiateRaw(hf) ==
    LET made == Construct(hf.cls)
    IN  IF made.raised = "none"
        THEN [error |-> NoError, state |-> made.state]
        ELSE [error |-> Exc(made.raised, <<>>), state |-> NoAttr]

Instantiate(hf) ==
    LET made == Construct(hf.cls)
    IN  IF made.raised = "none"
        THEN [error |-> NoError, state |-> made.state]
        ELSE [error |-> InstantiateError(hf), state |-> NoAttr]

-----------------------------------------------------------------------------
\* Test and its results (src/framework.py:107-150)

\* capwords(name.replace('_', ' '))
Title(f) ==
    CASE f = "print_status" -> "Print Status"
      [] f = "print_status_with_helper" -> "Print Status With Helper"
      [] f = "raise_exception" -> "Raise Exception"
      [] f = "setup_with_helper" -> "Setup With Helper"
      [] f = "teardown_with_helper" -> "Teardown With Helper"
      [] f = "illegal_test_function" -> "Illegal Test Function"
      [] f = "lambda" -> "<lambda>"

\* Test.__init__(suite, function); the Test keeps a reference to its suite.
TestInit(f) == [function |-> FunctionInit(f, "test"), title |-> Title(f)]

\* Test.Result.__init__; t is the index of the Test in the suite's list.
Result(t, cls, success, output, traceback) ==
    [test |-> t, title |-> tests[t].title, cls |-> cls, success |-> success,
     output |-> output, traceback |-> traceback]

Success(t, output) == Result(t, "Success", TRUE, output, <<>>)

Failure(t, output, exception) == Result(t, "Failure", FALSE, output, exception)

\* Mutant: __nonzero__ is not consulted, every Result object is truthy.
TruthyAlways(r) == TRUE

\* Result.__nonzero__
Truthy(r) == r.success

\* traceback.format_exc(): the header, the frame of the function and the
\* line naming the exception's class.
FormatExc(f, kind) == <<"Traceback (most recent call last):", f \o "()", kind>>

\* Mutant: the Test runs the default setup, whatever the suite holds.
GetSetupDefault == NullFunction

\* Suite.get_setup / get_teardown / get_helper: what a Test reads from its
\* suite when it runs.
GetSetup == setup
GetTeardown == teardown
GetHelper == Instantiate(helper)

\* Mutant: the instance made for the test before is used again.
NewInstanceShared == IF instances > 0 THEN instances ELSE instances + 1

\* self.cls() makes an object that did not exist before: the model numbers
\* the instances of a run.
NewInstance == instances + 1

\* Mutant: the skip records are counted as tests.
GetNumTestsAndSkips == Len(tests) + Len(skips)

\* Suite.get_num_tests / get_num_skips: what the Runner reads.
GetNumTests == Len(tests)
GetNumSkips == Len(skips)

\* The four things Test.run works with (src/framework.py:137-140): the
\* suite's setup and teardown as they are when the test runs, and its own
\* function.
TestBindings(t) ==
    [setup |-> GetSetup, function |-> tests[t].function, teardown |-> GetTeardown,
     factory |-> helper]

\* Mutant: the except clause names AssertionError only.
CaughtAssertionsOnly(kind) == kind = "AssertionError"

\* The bare except clause of Test.run catches an exception of every kind.
Caught(kind) == TRUE

\* Mutant: every step has a try block of its own, the next step always runs.
ProceedsAlways(r) == TRUE

\* The three calls share one try block: the next one is reached only if
\* this one returned.
Proceeds(r) == r.raised = "none"

\* One invocation, as the history keeps it: h is the helper instance of the
\* Test.run, r what the call did.
Call(role, t, fn, h, r) ==
    [role |-> role, test |-> t, name |-> fn.name, arg |-> r.arg, cls |-> h.cls,
     raised |-> r.raised]

\* The body of Test.run once the helper instance h exists: setup, function
\* and teardown inside the Muffler; the first that raises ends the sequence.
\* The outcome is the Result returned, or the exception that leaves Test.run.
TestSteps(t, h) ==
    LET b == TestBindings(t)
        s1 == FunctionCall(b.setup, h)
        s2 == FunctionCall(b.function, [h EXCEPT !.state = s1.state])
        s3 == FunctionCall(b.teardown, [h EXCEPT !.state = s2.state])
        c1 == Call("setup", t, b.setup, h, s1)
        c2 == Call("test", t, b.function, h, s2)
        c3 == Call("teardown", t, b.teardown, h, s3)
        done == IF ~Proceeds(s1)
                THEN [out |-> s1.out, calls |-> <<c1>>, raised |-> s1.raised,
                      by |-> b.setup.name]
                ELSE IF ~Proceeds(s2)
                THEN [out |-> s1.out \o s2.out, calls |-> <<c1, c2>>,
                      raised |-> s2.raised, by |-> b.function.name]
                ELSE [out |-> s1.out \o s2.out \o s3.out, calls |-> <<c1, c2, c3>>,
                      raised |-> s3.raised, by |-> b.teardown.name]
    IN  IF done.raised = "none"
        THEN [result |-> <<Success(t, done.out)>>, calls |-> done.calls,
              error |-> NoError]
        ELSE IF Caught(done.raised)
        THEN [result |-> <<Failure(t, done.out, FormatExc(done.by, done.raised))>>,
              calls |-> done.calls, error |-> NoError]
        ELSE [result |-> <<>>, calls |-> done.calls,
              error |-> Exc(done.raised, <<>>)]

-----------------------------------------------------------------------------
\* Runner: what it writes (src/framework.py:195-224)

SuiteTitle == "Testing the tests..."

Sunk(op, text, color, style) == [op |-> op, text |-> text, color |-> color, style |-> style]

\* '(%d/%d)' % (self.test, self.num_tests)
Status(done, total) == "(" \o ToString(done) \o "/" \o ToString(total) \o ")"

\* text.plural(count, noun)
Plural(n, noun) == IF n = 1 THEN noun ELSE noun \o "s"

WriteHeader ==
    << Sunk("write", <<SuiteTitle \o " ">>, "", ""), Sunk("save", <<>>, "", "") >>

\* Mutant: the two colors are exchanged.
WriteProgressExchanged(done, total, failed) ==
    << Sunk("restore", <<>>, "", ""),
       Sunk("clear_eol", <<>>, "", ""),
       Sunk("write_color", <<Status(done, total)>>,
            IF failed # 0 THEN "green" ELSE "red", "bold") >>

\* write_progress with the counters given
WriteProgress(done, total, failed) ==
    << Sunk("restore", <<>>, "", ""),
       Sunk("clear_eol", <<>>, "", ""),
       Sunk("write_color", <<Status(done, total)>>,
            IF failed # 0 THEN "red" ELSE "green", "bold") >>

\* Mutant: the captured output is printed above the header too.
WriteDebugInfoTwice(nskips, failed, ff) ==
    << Sunk("print", <<>>, "", "") >>
    \o (IF nskips # 0
        THEN << Sunk("print", <<"Skipped " \o ToString(nskips) \o " "
                                 \o Plural(nskips, "test") \o ".">>, "white", "") >>
        ELSE <<>>)
    \o (IF failed # 0
        THEN << Sunk("print", ff[1].output, "", ""),
                Sunk("print", <<"Test failed: " \o ff[1].title>>, "red", "bold"),
                Sunk("print", ff[1].output, "", ""),
                Sunk("print", ff[1].traceback, "", "") >>
        ELSE <<>>)

\* write_debug_info with the counters given; ff is first_failure
WriteDebugInfo(nskips, failed, ff) ==
    << Sunk("print", <<>>, "", "") >>
    \o (IF nskips # 0
        THEN << Sunk("print", <<"Skipped " \o ToString(nskips) \o " "
                                 \o Plural(nskips, "test") \o ".">>, "white", "") >>
        ELSE <<>>)
    \o (IF failed # 0
        THEN << Sunk("print", <<>>, "", ""),
                Sunk("print", <<"Test failed: " \o ff[1].title>>, "red", "bold"),
                Sunk("print", ff[1].output, "", ""),
                Sunk("print", ff[1].traceback, "", "") >>
        ELSE <<>>)

-----------------------------------------------------------------------------
\* Suite.run's complaint about a suite without tests.  src/framework.py
\* formats the message with self.title; src/testing.py names an undefined
\* global (suite.title), so there the complaint itself fails.
Sources == {"framework", "testing"}

NoTestsError(source) ==
    IF source = "framework"
    THEN Exc("ValueError", <<"The '" \o SuiteTitle \o "' suite does not have any",
                             "tests to run.">>)
    ELSE Exc("NameError", <<"global name 'suite' is not defined">>)

-----------------------------------------------------------------------------
Init ==
    /\ stop_on_error \in BOOLEAN
    /\ finished = FALSE
    /\ tests = <<>>
    /\ skips = <<>>
    /\ results = <<>>
    /\ setup = NullFunction
    /\ teardown = NullFunction
    /\ helper = NullHelper
    /\ successes = 0
    /\ failures = 0
    /\ test = 0
    /\ first_failure = <<>>
    /\ num_tests = 0
    /\ num_skips = 0
    /\ sink = <<>>
    /\ pc = "idle"
    /\ callback = "lambda"
    /\ queue = 0
    /\ index = 0
    /\ result = <<>>
    /\ runs = 0
    /\ calls = <<>>
    /\ instances = 0
    /\ base = 0
    /\ error = NoError
    /\ rebound = FALSE
    /\ yielded = <<>>
    /\ channel = <<>>
    /\ phase = "enter"
    /\ scopes = <<>>
    /\ raising = NoError
    /\ outcome = [expected |-> "none", body |-> NoError, raised |-> NoError]

\* A call that raises leaves the exception with its caller.
Raise(e) ==
    /\ pc' = "raised"
    /\ error' = e
    /\ queue' = 0

-----------------------------------------------------------------------------
\* Registration (src/framework.py:56-76).  A binding made after the last run
\* the bounds allow would never be read: setup, teardown and helper are
\* registered while a run is still to come.

\* Suite.test(function)
SuiteTest(f) ==
    /\ pc = "idle"
    /\ Len(tests) < MaxTests
    /\ IF ArityOk(f)
       THEN /\ tests' = Append(tests, TestInit(f))
            /\ UNCHANGED <<pc, error, queue>>
       ELSE /\ Raise(ArityError(f, "test"))
            /\ UNCHANGED tests
    /\ UNCHANGED <<stop_on_error, finished, skips, results, setup, teardown, helper,
                   runnerVars, sink, callback, index, result, runs, historyVars,
                   rebound, expectVars, yielded, channel>>

\* Suite.skip(function)
SuiteSkip(f) ==
    /\ pc = "idle"
    /\ Len(skips) < MaxSkips
    /\ IF ArityOk(f)
       THEN /\ skips' = Append(skips, FunctionInit(f, "skipped"))
            /\ UNCHANGED <<pc, error, queue>>
       ELSE /\ Raise(ArityError(f, "skipped"))
            /\ UNCHANGED skips
    /\ UNCHANGED <<stop_on_error, finished, tests, results, setup, teardown, helper,
                   runnerVars, sink, callback, index, result, runs, historyVars,
                   rebound, expectVars, yielded, channel>>

\* Suite.setup(function)
SuiteSetup(f) ==
    /\ pc = "idle"
    /\ runs < MaxRuns
    /\ IF ArityOk(f)
       THEN /\ setup' = FunctionInit(f, "setup")
            /\ rebound' = (rebound \/ tests # <<>>)
            /\ UNCHANGED <<pc, error, queue>>
       ELSE /\ Raise(ArityError(f, "setup"))
            /\ UNCHANGED <<setup, rebound>>
    /\ UNCHANGED <<stop_on_error, finished, tests, skips, results, teardown, helper,
                   runnerVars, sink, callback, index, result, runs, historyVars,
                   expectVars, yielded, channel>>

\* Suite.teardown(function)
SuiteTeardown(f) ==
    /\ pc = "idle"
    /\ runs < MaxRuns
    /\ IF ArityOk(f)
       THEN /\ teardown' = FunctionInit(f, "teardown")
            /\ rebound' = (rebound \/ tests # <<>>)
            /\ UNCHANGED <<pc, error, queue>>
       ELSE /\ Raise(ArityError(f, "teardown"))
            /\ UNCHANGED <<teardown, rebound>>
    /\ UNCHANGED <<stop_on_error, finished, tests, skips, results, setup, helper,
                   runnerVars, sink, callback, index, result, runs, historyVars,
                   expectVars, yielded, channel>>

\* Mutant: the class is instantiated when it is registered.
SuiteHelperEager(cls) ==
    /\ pc = "idle"
    /\ runs < MaxRuns
    /\ IF Instantiate(HelperInit(cls)).error = NoError
       THEN /\ helper' = HelperInit(cls)
            /\ rebound' = (rebound \/ tests # <<>>)
            /\ UNCHANGED <<pc, error, queue>>
       ELSE /\ Raise(Instantiate(HelperInit(cls)).error)
            /\ UNCHANGED <<helper, rebound>>
    /\ UNCHANGED <<stop_on_error, finished, tests, skips, results, setup, teardown,
                   runnerVars, sink, callback, index, result, runs, historyVars,
                   expectVars, yielded, channel>>

\* Suite.helper(cls): the class is wrapped, not instantiated.
SuiteHelper(cls) ==
    /\ pc = "idle"
    /\ runs < MaxRuns
    /\ helper' = HelperInit(cls)
    /\ rebound' = (rebound \/ tests # <<>>)
    /\ UNCHANGED <<stop_on_error, finished, tests, skips, results, setup, teardown,
                   runnerVars, sink, controlVars, historyVars, error, expectVars, yielded, channel>>

\* The caller of a call that raised catches the exception.
Handled ==
    /\ pc = "raised"
    /\ pc' = "idle"
    /\ error' = NoError
    /\ UNCHANGED <<suiteVars, runnerVars, sink, callback, queue, index, result, runs,
                   historyVars, rebound, expectVars, yielded, channel>>


-----------------------------------------------------------------------------
\* Suite.run (src/framework.py:34-54)

\* The head of Suite.run: the complaint about an empty suite, else the loop
\* starts at the first test.  q is the number of suites the Runner still has
\* to run after this one.
SuiteRunBegin(q) ==
    IF tests = <<>>
    THEN /\ \E source \in Sources : Raise(NoTestsError(source))
         /\ UNCHANGED <<index, historyVars>>
    ELSE /\ pc' = "test_run"
         /\ queue' = q
         /\ index' = 1
         /\ calls' = <<>>
         /\ instances' = 0
         /\ base' = Len(results)
         /\ UNCHANGED error

\* The callbacks a caller passes to Suite.run: the default, lambda result:
\* None, or a function of its own, which may raise.
Callbacks == {"lambda", "raising"}

\* suite.run(callback) called directly.
SuiteRun ==
    /\ pc = "idle"
    /\ runs < MaxRuns
    /\ runs' = runs + 1
    /\ \E cb \in Callbacks : callback' = cb
    /\ SuiteRunBegin(0)
    /\ UNCHANGED <<suiteVars, runnerVars, sink, result, rebound, expectVars, yielded, channel>>

\* The capture scope of utilities.muffler, as Test.run and run_suite use it:
\* entering redirects the output channel to a new scope, what is printed
\* goes to the innermost open scope, leaving restores the channel that was
\* active before.
MufflerEnter(ch) == Append(ch, <<>>)

MufflerWrite(ch, lines) ==
    IF ch = <<>> THEN ch ELSE [ch EXCEPT ![Len(ch)] = @ \o lines]

MufflerExit(ch) == SubSeq(ch, 1, Len(ch) - 1)

\* Mutant: the scope is left by hand after the try statement, which the
\* return of the except clause never reaches.
ReleasedOnSuccess(ch, raised) == IF raised THEN ch ELSE MufflerExit(ch)

\* with muffler.Muffler() as output: the with statement leaves the scope on
\* every way out of its block, the two return statements included
\* (src/framework.py:142-150).
Released(ch, raised) == MufflerExit(ch)

\* The output channel after a Test.run that found it as ch; rs holds the
\* Result it returns, or nothing if an exception leaves it.
TestChannel(ch, rs) ==
    IF rs = <<>>
    THEN Released(MufflerEnter(ch), TRUE)
    ELSE Released(MufflerWrite(MufflerEnter(ch), rs[1].output), ~rs[1].success)

\* result = test.run() (src/framework.py:136-150).  The helper is made
\* before the try block: an error of get_helper leaves Test.run, Suite.run
\* and Runner.run.
TestRun ==
    /\ pc = "test_run"
    /\ LET made == GetHelper
       IN  IF made.error # NoError
           THEN /\ Raise(made.error)
                /\ UNCHANGED <<result, historyVars, channel>>
           ELSE LET h == [id |-> NewInstance, cls |-> helper.cls,
                          state |-> made.state]
                    run == TestSteps(index, h)
                IN  /\ calls' = calls \o run.calls
                    /\ instances' = instances + 1
                    /\ result' = run.result
                    /\ IF run.error # NoError
                       THEN Raise(run.error)
                       ELSE /\ pc' = "callback"
                            /\ UNCHANGED <<error, queue>>
                    /\ channel' = TestChannel(channel, run.result)
                    /\ UNCHANGED base
    /\ UNCHANGED <<suiteVars, runnerVars, sink, callback, index, runs, rebound,
                   expectVars, yielded>>

\* Mutant: the test for None is lost, every Failure is kept.
FirstFailureLatest(r) ==
    IF ~Truthy(r) THEN <<r>> ELSE first_failure

\* Runner.update(result) (src/framework.py:181-192)
FirstFailure(r) ==
    IF ~Truthy(r) /\ first_failure = <<>> THEN <<r>> ELSE first_failure

RunnerUpdate(r) ==
    /\ successes' = (IF Truthy(r) THEN successes + 1 ELSE successes)
    /\ failures' = (IF ~Truthy(r) THEN failures + 1 ELSE failures)
    /\ first_failure' = FirstFailure(r)
    /\ test' = test + 1
    /\ sink' = sink \o WriteProgress(test', num_tests, failures')
    /\ UNCHANGED <<num_tests, num_skips>>

\* Mutant: the result is appended without the callback being called.
CallbackSkipped ==
    /\ pc = "callback"
    /\ pc' = "append"
    /\ UNCHANGED <<suiteVars, runnerVars, sink, callback, queue, index, result, runs,
                   historyVars, error, rebound, expectVars, yielded, channel>>

\* Mutant: Suite.run calls the callback in a try block of its own.
CallbackErrorSwallowed(cb) == NoError

\* What the call of the callback raises: the default and Runner.update
\* return, the caller's own function raises.
CallbackError(cb) == IF cb = "raising" THEN Exc("KeyError", <<>>) ELSE NoError

\* callback(result): what the callback raises leaves Suite.run, the result
\* in hand is dropped with the frame.
Callback ==
    /\ pc = "callback"
    /\ IF CallbackError(callback) # NoError
       THEN /\ Raise(CallbackError(callback))
            /\ result' = <<>>
            /\ UNCHANGED <<runnerVars, sink>>
       ELSE /\ IF callback = "update"
               THEN RunnerUpdate(result[1])
               ELSE UNCHANGED <<runnerVars, sink>>
            /\ pc' = "append"
            /\ UNCHANGED <<error, queue, result>>
    /\ UNCHANGED <<suiteVars, callback, index, runs, historyVars, rebound,
                   expectVars, yielded, channel>>

\* Mutants: the break ignores the flag; the break is lost.
StopHereAnyFailure(r) == ~Truthy(r)

StopHereNever(r) == FALSE

\* if not result and self.stop_on_error: break
StopHere(r) == ~Truthy(r) /\ stop_on_error

\* self._results.append(result), the break, and after the loop
\* self.finished = True
AppendResult ==
    /\ pc = "append"
    /\ results' = Append(results, result[1])
    /\ result' = <<>>
    /\ IF StopHere(result[1]) \/ index = Len(tests)
       THEN /\ finished' = TRUE
            /\ pc' = (IF callback = "update" THEN "suite_end" ELSE "idle")
            /\ UNCHANGED index
       ELSE /\ index' = index + 1
            /\ pc' = "test_run"
            /\ UNCHANGED finished
    /\ UNCHANGED <<stop_on_error, tests, skips, setup, teardown, helper, runnerVars,
                   sink, callback, queue, runs, historyVars, error, rebound,
                   expectVars, yielded, channel>>

-----------------------------------------------------------------------------
\* Runner.run(*suites) (src/framework.py:159-179).  The suites passed are n
\* references to the one suite of the model.

RunnerRun(n) ==
    /\ pc = "idle"
    /\ runs < MaxRuns
    /\ runs' = runs + 1
    /\ pc' = "suite_begin"
    /\ queue' = n
    /\ callback' = "update"
    /\ sink' = <<>>
    /\ UNCHANGED <<suiteVars, runnerVars, index, result, historyVars, error, rebound,
                   expectVars, yielded, channel>>

\* Mutant: the counters are set once, when the Runner is made.
RunnerResetNever == UNCHANGED <<successes, failures, test, first_failure>>

\* The counters of the Runner are set anew for each suite
\* (src/framework.py:161-165).
RunnerReset ==
    /\ successes' = 0
    /\ failures' = 0
    /\ test' = 0
    /\ first_failure' = <<>>

\* The loop body up to and into suite.run(self.update)
RunnerBegin ==
    /\ pc = "suite_begin"
    /\ RunnerReset
    /\ num_tests' = GetNumTests
    /\ num_skips' = GetNumSkips
    /\ sink' = sink \o WriteHeader \o WriteProgress(test', num_tests', failures')
    /\ SuiteRunBegin(queue - 1)
    /\ UNCHANGED <<suiteVars, callback, result, runs, rebound, expectVars, yielded, channel>>

\* After suite.run returned: write_progress, write_debug_info, next suite.
RunnerEnd ==
    /\ pc = "suite_end"
    /\ sink' = sink \o WriteProgress(test, num_tests, failures)
                    \o WriteDebugInfo(num_skips, failures, first_failure)
    /\ pc' = (IF queue > 0 THEN "suite_begin" ELSE "idle")
    /\ UNCHANGED <<suiteVars, runnerVars, callback, queue, index, result, runs,
                   historyVars, error, rebound, expectVars, yielded, channel>>

-----------------------------------------------------------------------------
\* Suite.__iter__ (src/framework.py:29-31)

\* Mutant: the assertion is lost.
IterAllowedAlways == TRUE

\* assert self.finished
IterAllowed == finished

\* for result in suite: the assertion fails, or the iterator over _results
\* yields what the list holds.
SuiteIter ==
    /\ pc = "idle"
    /\ IF IterAllowed
       THEN /\ pc' = "iterated"
            /\ yielded' = results
            /\ UNCHANGED <<error, queue>>
       ELSE /\ Raise(Exc("AssertionError", <<>>))
            /\ UNCHANGED yielded
    /\ UNCHANGED <<suiteVars, runnerVars, sink, callback, index, result, runs,
                   historyVars, rebound, expectVars, channel>>

\* The loop over the suite is over.
SuiteIterEnd ==
    /\ pc = "iterated"
    /\ pc' = "idle"
    /\ yielded' = <<>>
    /\ UNCHANGED <<suiteVars, runnerVars, sink, callback, queue, index, result, runs,
                   historyVars, error, rebound, expectVars, channel>>

-----------------------------------------------------------------------------
Next ==
    \/ \E f \in TestFunctions : SuiteTest(f)
    \/ \E f \in SkipFunctions : SuiteSkip(f)
    \/ \E f \in SetupFunctions : SuiteSetup(f)
    \/ \E f \in TeardownFunctions : SuiteTeardown(f)
    \/ \E cls \in HelperClasses : SuiteHelper(cls)
    \/ SuiteRun
    \/ \E n \in 1..MaxSuites : RunnerRun(n)
    \/ RunnerBegin
    \/ TestRun
    \/ Callback
    \/ AppendResult
    \/ RunnerEnd
    \/ SuiteIter
    \/ SuiteIterEnd
    \/ Handled

Spec == Init /\ [][Next]_vars

-----------------------------------------------------------------------------
\* A suite run inside capture scopes of the caller, as run_suite does
\* (src/tests.py:59-69): with muffler.Muffler() as transcript: ...

\* The caller enters a capture scope.
CaptureEnter ==
    /\ pc = "idle"
    /\ runs < MaxRuns
    /\ Len(channel) < MaxScopes
    /\ channel' = MufflerEnter(channel)
    /\ UNCHANGED <<suiteVars, runnerVars, sink, controlVars, historyVars, error,
                   rebound, yielded, expectVars>>

\* The caller leaves its innermost capture scope.
CaptureExit ==
    /\ pc = "idle"
    /\ channel # <<>>
    /\ channel' = MufflerExit(channel)
    /\ UNCHANGED <<suiteVars, runnerVars, sink, controlVars, historyVars, error,
                   rebound, yielded, expectVars>>

NextCapture ==
    \/ \E f \in TestFunctions : SuiteTest(f)
    \/ \E f \in SetupFunctions : SuiteSetup(f)
    \/ \E f \in TeardownFunctions : SuiteTeardown(f)
    \/ \E cls \in HelperClasses : SuiteHelper(cls)
    \/ SuiteRun
    \/ TestRun
    \/ Callback
    \/ AppendResult
    \/ Handled
    \/ CaptureEnter
    \/ CaptureExit

SpecCapture == Init /\ [][NextCapture]_vars

-----------------------------------------------------------------------------
\* expect(exception) (src/framework.py:296-304), used as tests.py uses it:
\* with expect(E1): with expect(E2): body.  scopes is the stack of open
\* scopes, the innermost last; the body of an enclosing scope is the scope
\* it encloses.

\* An exception object in flight: the model tells two objects of one class
\* and message apart by a serial number.
Raised(kind, message, serial) == [kind |-> kind, message |-> message, serial |-> serial]

\* Mutant: there is no bare except clause, an unexpected exception passes.
ExpectExitPropagates(expected, exc) ==
    IF exc # NoError /\ IsInstance(exc.kind, expected) THEN NoError ELSE exc

\* What leaves the scope when its body ended with exc (NoError: the body
\* completed): the generator resumes after the yield, or at the except
\* clause that matches.
ExpectExit(expected, exc) ==
    IF exc = NoError
    THEN NoError
    ELSE IF IsInstance(exc.kind, expected)
    THEN NoError
    ELSE Raised("AssertionError", <<"Unknown exception '" \o expected \o "' raised.">>,
                exc.serial + 1)

\* with expect(e):
ExpectEnter(e) ==
    /\ phase = "enter"
    /\ Len(scopes) < MaxDepth
    /\ scopes' = Append(scopes, e)
    /\ UNCHANGED <<phase, raising, outcome>>
    /\ UNCHANGED <<suiteVars, runnerVars, sink, controlVars, historyVars, error,
                   rebound, yielded, channel>>

\* The innermost body runs: it completes (k = "none") or raises a k.
ExpectBody(k) ==
    /\ phase = "enter"
    /\ scopes # <<>>
    /\ phase' = "exit"
    /\ raising' = (IF k = "none" THEN NoError ELSE Raised(k, <<>>, 0))
    /\ UNCHANGED <<scopes, outcome>>
    /\ UNCHANGED <<suiteVars, runnerVars, sink, controlVars, historyVars, error,
                   rebound, yielded, channel>>

\* The innermost open scope is left.
ExpectLeave ==
    /\ phase = "exit"
    /\ scopes # <<>>
    /\ LET e == scopes[Len(scopes)]
       IN  /\ raising' = ExpectExit(e, raising)
           /\ outcome' = [expected |-> e, body |-> raising, raised |-> raising']
    /\ scopes' = SubSeq(scopes, 1, Len(scopes) - 1)
    /\ UNCHANGED phase
    /\ UNCHANGED <<suiteVars, runnerVars, sink, controlVars, historyVars, error,
                   rebound, yielded, channel>>

\* The test function that held the scopes is over; the next one begins.
ExpectDone ==
    /\ phase = "exit"
    /\ scopes = <<>>
    /\ phase' = "enter"
    /\ raising' = NoError
    /\ outcome' = [expected |-> "none", body |-> NoError, raised |-> NoError]
    /\ UNCHANGED scopes
    /\ UNCHANGED <<suiteVars, runnerVars, sink, controlVars, historyVars, error,
                   rebound, yielded, channel>>

NextExpect ==
    \/ \E e \in Kinds : ExpectEnter(e)
    \/ \E k \in Kinds \cup {"none"} : ExpectBody(k)
    \/ ExpectLeave
    \/ ExpectDone

SpecExpect == Init /\ [][NextExpect]_vars

-----------------------------------------------------------------------------
\* Properties.

\* The step on which Suite.run returns to its caller.
SuiteRunReturns == pc = "append" /\ pc' \in {"idle", "suite_end"}

\* The results the current Suite.run has recorded.
Recorded == SubSeq(results, base + 1, Len(results))

Min(S) == CHOOSE i \in S : \A j \in S : i <= j

FailuresIn(rs) == {i \in 1..Len(rs) : rs[i].cls = "Failure"}

\* C1, as claimed: with stop_on_error false, when Suite.run returns the
\* result sequence has length exactly N and its i-th result belongs to the
\* i-th registered test.
C1_LengthIsN ==
    [][(SuiteRunReturns /\ ~stop_on_error) =>
            /\ Len(results') = Len(tests)
            /\ \A i \in 1..Len(tests) : results'[i].test = i]_vars

\* What holds of each run: with stop_on_error false, a Suite.run that
\* returns has appended exactly N results to the sequence, the i-th of them
\* belonging to the i-th registered test; the sequence has length N if it
\* was empty when the run began.
C1_RunAppendsN ==
    [][(SuiteRunReturns /\ ~stop_on_error) =>
            /\ Len(results') = base + Len(tests)
            /\ \A i \in 1..Len(tests) : results'[base + i].test = i
            /\ (base = 0 => Len(results') = Len(tests))]_vars

\* Runner.run(s, s) has run s the second time: three tests, passing and
\* failing ones, three more results.
C1_Witness ==
    /\ pc = "suite_end"
    /\ ~stop_on_error
    /\ Len(tests) = 3
    /\ base = 3
    /\ Len(results) = 6
    /\ \E i, j \in 4..6 : results[i].cls = "Success" /\ results[j].cls = "Failure"

\* C2, as claimed: with stop_on_error true, when Suite.run returns the
\* result sequence ends at its first Failure, or has length N if there is
\* none; no later test was invoked; finished is true.
C2_LengthIsFirstFailure ==
    [][(SuiteRunReturns /\ stop_on_error) =>
            /\ finished'
            /\ Len(results') = (IF FailuresIn(results') = {} THEN Len(tests)
                                ELSE Min(FailuresIn(results')))
            /\ \A k \in 1..Len(calls') : calls'[k].test <= Len(results')]_vars

\* What holds of each run: with stop_on_error true, the results a
\* Suite.run that returns has appended end at the first Failure among them,
\* or are N if none failed; the i-th of them belongs to the i-th test, no
\* test after the failing one was invoked, and finished is true.
C2_RunStopsAtFirstFailure ==
    [][(SuiteRunReturns /\ stop_on_error) =>
            /\ finished'
            /\ Len(Recorded') = (IF FailuresIn(Recorded') = {} THEN Len(tests)
                                 ELSE Min(FailuresIn(Recorded')))
            /\ \A i \in 1..Len(Recorded') : Recorded'[i].test = i
            /\ \A k \in 1..Len(calls') : calls'[k].test <= Len(Recorded')]_vars

\* Three tests, the second fails: the run has stopped after two results and
\* nothing of the third test was invoked.
C2_Witness ==
    /\ pc = "suite_end"
    /\ stop_on_error
    /\ finished
    /\ Len(tests) = 3
    /\ Len(Recorded) = 2
    /\ Recorded[1].cls = "Success"
    /\ Recorded[2].cls = "Failure"
    /\ \A k \in 1..Len(calls) : calls[k].test # 3

\* C3: within one Test.run the calls are setup, test function, teardown in
\* this order; the test function is called only after setup returned, the
\* teardown only after setup and the test function returned; after a call
\* that raised, nothing more of that Test.run is called.
C3_StepOrder ==
    \A k \in 1..Len(calls) :
        /\ calls[k].role = "setup" =>
                (k > 1 => calls[k - 1].test # calls[k].test)
        /\ calls[k].role = "test" =>
                /\ k > 1
                /\ calls[k - 1].role = "setup"
                /\ calls[k - 1].test = calls[k].test
                /\ calls[k - 1].raised = "none"
        /\ calls[k].role = "teardown" =>
                /\ k > 2
                /\ calls[k - 1].role = "test"
                /\ calls[k - 1].test = calls[k].test
                /\ calls[k - 1].raised = "none"
                /\ calls[k - 2].raised = "none"
        /\ (calls[k].raised # "none" /\ k < Len(calls)) =>
                calls[k + 1].test # calls[k].test

\* The first test ran all three steps, the test function of the second
\* raised and its teardown was not called.
C3_Witness ==
    /\ pc = "callback"
    /\ Len(calls) = 5
    /\ calls[3].role = "teardown"
    /\ calls[3].name = "teardown_with_helper"
    /\ calls[5].role = "test"
    /\ calls[5].raised # "none"

\* The kinds of exception the registered functions raise.
UserKinds == {"ZeroDivisionError", "AttributeError"}

\* C4: an exception raised by setup, test function or teardown does not
\* leave Test.run, Suite.run or Runner.run: the Test.run ends with a Failure
\* result; with stop_on_error false the run goes on, every test is invoked
\* and has its result when Suite.run returns.
C4_ErrorsAbsorbed ==
    [][/\ (pc = "test_run" /\ pc' = "raised") =>
                (calls' = calls /\ error'.kind \notin UserKinds)
       /\ (pc = "test_run" /\ calls' # calls /\ calls'[Len(calls')].raised # "none") =>
                (pc' = "callback" /\ result'[1].cls = "Failure")
       /\ (SuiteRunReturns /\ ~stop_on_error) =>
                \A t \in 1..Len(tests) :
                    /\ \E k \in 1..Len(calls') : calls'[k].test = t
                    /\ Recorded'[t].test = t]_vars

\* Three tests whose second raises, stop_on_error false: Success, Failure,
\* Success.
C4_Witness ==
    /\ pc = "suite_end"
    /\ ~stop_on_error
    /\ Len(tests) = 3
    /\ Len(Recorded) = 3
    /\ Recorded[1].cls = "Success"
    /\ Recorded[2].cls = "Failure"
    /\ Recorded[3].cls = "Success"
    /\ tests[2].function.name = "raise_exception"

\* The calls of the Test.run that produced the pending result.
CallsOf(t) == {k \in 1..Len(calls) : calls[k].test = t}

FailureNaming(r, kind) ==
    /\ r.cls = "Failure"
    /\ ~r.success
    /\ r.traceback # <<>>
    /\ \E i \in 1..Len(r.traceback) : r.traceback[i] = kind

SuccessNoTrace(r) == r.cls = "Success" /\ r.success /\ r.traceback = <<>>

\* C5, as claimed: a Test whose body raises produces a Failure with a trace
\* naming the error's type; a Test whose body completes normally produces a
\* Success with empty trace; a result is truthy iff it is a Success.
C5_BodyDecides ==
    pc = "callback" =>
        LET r == result[1]
        IN  /\ \A k \in CallsOf(r.test) :
                    calls[k].role = "test" =>
                        IF calls[k].raised # "none"
                        THEN FailureNaming(r, calls[k].raised)
                        ELSE SuccessNoTrace(r)
            /\ Truthy(r) <=> r.cls = "Success"

\* C5, amended: a Test whose setup, body or teardown raises produces a
\* Failure with a trace naming the error's type; a Test whose setup, body
\* and teardown all complete normally produces a Success with empty trace;
\* a result is truthy iff it is a Success.
C5_ThreeStepsDecide ==
    pc = "callback" =>
        LET r == result[1]
        IN  /\ \A k \in CallsOf(r.test) :
                    calls[k].raised # "none" => FailureNaming(r, calls[k].raised)
            /\ (\A k \in CallsOf(r.test) : calls[k].raised = "none") =>
                    (Cardinality(CallsOf(r.test)) = 3 /\ SuccessNoTrace(r))
            /\ Truthy(r) <=> r.cls = "Success"

\* The body completed and the teardown raised: a Failure.
C5_Witness ==
    /\ pc = "callback"
    /\ result[1].cls = "Failure"
    /\ \E k \in CallsOf(result[1].test) :
            calls[k].role = "teardown" /\ calls[k].raised # "none"

\* C6, as claimed: no registration changes what an already registered test
\* runs (its setup, function, teardown and helper factory).
C6_BoundAtRegistration ==
    [][\A t \in 1..Len(tests) : TestBindings(t)' = TestBindings(t)]_vars

\* C6, amended: a Test runs the setup, teardown and helper factory that are
\* bound in the Suite at the moment the test is run.
C6_BoundAtRun ==
    [][(pc = "test_run" /\ pc' = "callback") =>
            LET new == SubSeq(calls', Len(calls) + 1, Len(calls'))
            IN  /\ new # <<>>
                /\ new[1].name = setup.name
                /\ new[1].cls = helper.cls
                /\ Len(new) >= 2 => new[2].name = tests[index].function.name
                /\ Len(new) = 3 => new[3].name = teardown.name]_vars

\* The setup was registered when the suite already held its test, and the
\* test has run with it.
C6_Witness ==
    /\ rebound
    /\ pc = "callback"
    /\ Len(tests) = 1
    /\ teardown = NullFunction
    /\ helper = NullHelper
    /\ setup.name = "setup_with_helper"
    /\ calls[1].name = "setup_with_helper"
    /\ calls[1].arg # 0
    /\ result[1].cls = "Success"

\* C7: when the body of an expect(E) scope completes without raising,
\* leaving the scope raises AssertionError.
C7_NoExceptionIsAssertionError ==
    (outcome.expected # "none" /\ outcome.body = NoError) =>
        outcome.raised.kind = "AssertionError"

\* C8: when the body of an expect(E) scope raises an exception that is an
\* E, the scope is left normally; when it raises one that is not an E,
\* AssertionError leaves the scope and the exception of the body does not.
C8_RaisedExceptionIsJudged ==
    (outcome.expected # "none" /\ outcome.body # NoError) =>
        IF IsInstance(outcome.body.kind, outcome.expected)
        THEN outcome.raised = NoError
        ELSE /\ outcome.raised.kind = "AssertionError"
             /\ outcome.raised # outcome.body

\* with expect(AssertionError): with expect(AttributeError): raise KeyError
\* (src/tests.py:111-113): the inner scope was left with an AssertionError,
\* the outer one has swallowed it.
C8_Witness ==
    /\ scopes = <<>>
    /\ outcome.expected = "AssertionError"
    /\ outcome.body.kind = "AssertionError"
    /\ outcome.body.message # <<>>
    /\ outcome.raised = NoError

\* C9: running a suite without tests raises the no-tests error, a
\* ValueError, before anything is executed and without side effects: nothing
\* is invoked, the progress sink is not written, the result sequence is
\* unchanged and finished stays false.
C9_EmptySuiteNoSideEffects ==
    [][((SuiteRun \/ RunnerBegin) /\ tests = <<>>) =>
            /\ pc' = "raised"
            /\ error'.kind = "ValueError"
            /\ calls' = calls
            /\ instances' = instances
            /\ sink' = sink
            /\ results' = results
            /\ finished' = FALSE]_vars

\* The registration calls of a function in each role.
Registers(f, role) ==
    CASE role = "test" -> SuiteTest(f)
      [] role = "skipped" -> SuiteSkip(f)
      [] role = "setup" -> SuiteSetup(f)
      [] role = "teardown" -> SuiteTeardown(f)

AllFunctions == TestFunctions \cup SkipFunctions \cup SetupFunctions \cup TeardownFunctions

C11_HelperErrorAtRun ==
    [][/\ \A cls \in HelperClasses :
            SuiteHelper(cls) =>
                (pc' = "idle" /\ error' = NoError /\ instances' = instances)
       /\ (pc' = "raised" /\ error' = InstantiateError(helper)) => pc = "test_run"
       /\ (pc = "test_run" /\ Construct(helper.cls).raised # "none") =>
                /\ pc' = "raised"
                /\ error' = InstantiateError(helper)
                /\ error'.kind = "ValueError"
                /\ index = 1
                /\ calls' = <<>>
                /\ instances' = 0
                /\ results' = results]_vars

\* runner.run(suite) on a suite with a test and IllegalCustomHelper
\* (src/tests.py:227-230): the ValueError is with the caller, the header and
\* the first progress indicator are written, nothing was called.
C11_Witness ==
    /\ pc = "raised"
    /\ error = InstantiateError(HelperInit("IllegalCustomHelper"))
    /\ callback = "update"
    /\ tests # <<>>
    /\ sink # <<>>
    /\ calls = <<>>

\* The lines the registered functions print.
UserLines ==
    {"Successful test executed.", "Unsuccessful test executed.",
     "Setting up a helper object.", "Tearing down a helper object.",
     HelperState, CustomState}

Max(S) == CHOOSE i \in S : \A j \in S : i >= j

\* What the Runner has rendered for the suite it is running or has run last:
\* the sink from the last header on.
Headers == {k \in 1..Len(sink) : sink[k].op = "write"}

Transcript == IF Headers = {} THEN <<>> ELSE SubSeq(sink, Max(Headers), Len(sink))

\* The entries of a transcript that show a line printed by a user function.
Carrying(T) == {k \in 1..Len(T) : \E i \in 1..Len(T[k].text) : T[k].text[i] \in UserLines}

\* write_debug_info has written: its entries are the only ones printed.
DiagnosticsWritten(T) == T # <<>> /\ T[Len(T)].op = "print"

\* C12: the output of a test that succeeds (setup and teardown output
\* included) is never in the Runner's transcript; the only entry that shows
\* printed lines is the output of the failure whose diagnostics are shown,
\* once, between the header and the trace of that failure's block.
C12_OnlyFailureOutputShown ==
    LET T == Transcript
    IN  /\ \A k \in Carrying(T) :
                /\ DiagnosticsWritten(T)
                /\ first_failure # <<>>
                /\ first_failure[1].cls = "Failure"
                /\ T[k].text = first_failure[1].output
                /\ 1 < k /\ k < Len(T)
                /\ T[k - 1].text = <<"Test failed: " \o first_failure[1].title>>
                /\ T[k + 1].text = first_failure[1].traceback
        /\ Cardinality(Carrying(T)) <= 1
        /\ (DiagnosticsWritten(T) /\ first_failure # <<>>
                /\ first_failure[1].output # <<>>) => Cardinality(Carrying(T)) = 1
        /\ \A i \in 1..Len(Recorded) :
                (Recorded[i].cls = "Success" /\ callback = "update") =>
                    /\ Recorded[i].output # <<>>
                    /\ \A k \in 1..Len(T) : T[k].text # Recorded[i].output

\* src/tests.py:155-172 with stop_on_error false: the second of three tests
\* failed, the transcript shows its setup's and its own line and nothing of
\* the two tests that printed and succeeded.
C12_Witness ==
    /\ pc = "idle"
    /\ callback = "update"
    /\ DiagnosticsWritten(Transcript)
    /\ Len(Recorded) = 3
    /\ Recorded[1].cls = "Success"
    /\ Recorded[2].cls = "Failure"
    /\ Recorded[3].cls = "Success"
    /\ Recorded[2].output = <<"Setting up a helper object.", "Unsuccessful test executed.">>
    /\ Cardinality(Carrying(Transcript)) = 1

\* The results the Runner has been notified of in the current suite run: the
\* recorded ones and the one whose callback has returned.
Notified == Recorded \o (IF pc = "append" THEN result ELSE <<>>)

\* The headers of diagnostic blocks in a transcript.
Details(T) == {k \in 1..Len(T) : T[k].op = "print" /\ T[k].color = "red"}

\* C13: within a suite run the Runner keeps the first Failure it is
\* notified of and no later Failure replaces it; later failures are counted;
\* when the suite has finished a diagnostic block (title, output, trace) is
\* printed iff there was a failure, one block, for the first failure.
C13_FirstFailureOnly ==
    [][/\ (callback = "update" /\ pc \in {"callback", "append", "test_run"}
                /\ first_failure # <<>>) =>
                first_failure' = first_failure
       /\ (callback' = "update" /\ pc' \in {"test_run", "callback", "append", "suite_end"}) =>
                LET N == Notified'
                    F == FailuresIn(N)
                IN  /\ failures' = Cardinality(F)
                    /\ first_failure' = (IF F = {} THEN <<>> ELSE <<N[Min(F)]>>)
       /\ pc = "suite_end" =>
                LET T == Transcript'
                    F == FailuresIn(Recorded)
                IN  /\ DiagnosticsWritten(T)
                    /\ Details(T) # {} <=> F # {}
                    /\ Cardinality(Details(T)) <= 1
                    /\ \A k \in Details(T) :
                            /\ k + 2 = Len(T)
                            /\ T[k].text = <<"Test failed: " \o Recorded[Min(F)].title>>
                            /\ T[k + 1].text = Recorded[Min(F)].output
                            /\ T[k + 2].text = Recorded[Min(F)].traceback]_vars

\* Two tests failed, stop_on_error false: both are counted, the block names
\* the first.
C13_Witness ==
    /\ pc = "idle"
    /\ callback = "update"
    /\ failures = 2
    /\ Len(Recorded) = 3
    /\ Recorded[1].title = "Raise Exception"
    /\ Recorded[2].title = "Print Status With Helper"
    /\ Recorded[2].cls = "Failure"
    /\ Recorded[3].cls = "Success"
    /\ first_failure = <<Recorded[1]>>
    /\ \E k \in Details(Transcript) : Transcript[k].text = <<"Test failed: Raise Exception">>

\* The skip line of a transcript.
SkipLines(T) == {k \in 1..Len(T) : T[k].op = "print" /\ T[k].color = "white"}

\* C14: a function registered with skip is never called by Suite.run and
\* has no Result: registering it changes the skip list alone, every call and
\* every result of a run belongs to a registered test, and the run makes at
\* most one result per test whatever the number of skips.  The skips are
\* counted, not in the total of the progress indicator, and the Runner
\* prints the skip line iff the suite has a skip record.
C14_SkipsOnlyCounted ==
    [][/\ \A f \in SkipFunctions :
            SuiteSkip(f) =>
                /\ UNCHANGED <<tests, results, calls, instances, finished>>
                /\ ArityOk(f) => skips' = Append(skips, FunctionInit(f, "skipped"))
       /\ \A k \in 1..Len(calls') :
            /\ calls'[k].role \in {"setup", "test", "teardown"}
            /\ calls'[k].test \in 1..Len(tests)
            /\ calls'[k].role = "test" => calls'[k].name = tests[calls'[k].test].function.name
       /\ Len(Recorded') <= Len(tests')
       /\ \A i \in 1..Len(Recorded') : Recorded'[i].test \in 1..Len(tests)
       /\ pc = "suite_begin" =>
                /\ num_tests' = Len(tests)
                /\ num_skips' = Len(skips)
                /\ sink'[Len(sink')].text = <<Status(0, Len(tests))>>
       /\ pc = "suite_end" =>
                LET T == Transcript'
                IN  /\ SkipLines(T) # {} <=> skips # <<>>
                    /\ \A k \in SkipLines(T) :
                            T[k].text = <<"Skipped " \o ToString(Len(skips)) \o " "
                                          \o Plural(Len(skips), "test") \o ".">>
                    /\ \E k \in 1..Len(T) :
                            T[k].text = <<Status(Len(Recorded), Len(tests))>>]_vars

\* src/tests.py:80-85 with stop_on_error false: three tests and a skip have
\* run; three results, (3/3), and the skip line.
C14_Witness ==
    /\ pc = "idle"
    /\ callback = "update"
    /\ Len(skips) = 1
    /\ skips[1].name = "print_status"
    /\ Len(tests) = 3
    /\ Len(Recorded) = 3
    /\ Cardinality({k \in 1..Len(calls) : calls[k].role = "test"}) = 3
    /\ \E k \in SkipLines(Transcript) : Transcript[k].text = <<"Skipped 1 test.">>
    /\ \E k \in 1..Len(Transcript) : Transcript[k].text = <<"(3/3)">>

\* C15: iterating the suite while finished is false fails with the
\* AssertionError of __iter__ and yields nothing; when a Suite.run has
\* returned, finished is true and an iteration yields the recorded results in
\* their order.
C15_IterationNeedsFinished ==
    [][/\ SuiteIter =>
            IF ~finished
            THEN /\ pc' = "raised"
                 /\ error'.kind = "AssertionError"
                 /\ yielded' = <<>>
            ELSE /\ pc' = "iterated"
                 /\ error' = NoError
                 /\ Len(yielded') = Len(results)
                 /\ \A i \in 1..Len(results) : yielded'[i] = results[i]
       /\ SuiteRunReturns => finished'
       /\ pc' = "iterated" => (finished' /\ runs' > 0 /\ yielded' = results')]_vars

\* src/tests.py:80-97: the suite has run and stopped at its second test,
\* the iteration has yielded the two results.
C15_Witness ==
    /\ pc = "iterated"
    /\ finished
    /\ Len(tests) = 3
    /\ Len(yielded) = 2
    /\ yielded[1].cls = "Success"
    /\ yielded[2].cls = "Failure"
    /\ yielded[2].test = 2

\* The result sequence holds all that a run of the registered tests makes:
\* one result per test, or, with stop_on_error, results up to a Failure.
FullyPopulated ==
    /\ tests # <<>>
    /\ \/ Len(results) = Len(tests)
       \/ stop_on_error /\ results # <<>> /\ ~Truthy(results[Len(results)])

\* C16: in every state reachable by registrations and runs of one Suite
\* (running it again and registering tests after a run included), finished is
\* true iff the result sequence is fully populated, and the result sequence
\* is never longer than the list of registered tests.
C16_FinishedIffPopulated ==
    /\ Len(results) <= Len(tests)
    /\ finished <=> FullyPopulated

\* C17: Suite.run calls callback(result) once for each test it executes, in
\* registration order, when that test's Test.run has returned and before
\* the next test's setup begins: the k-th call of the callback has the
\* result of the k-th test, nothing of a test is called while the callback
\* runs, and a test starts only when the callbacks of all earlier tests have
\* returned.  (The Runner's update counts its own calls in self.test.)
C17_CallbackBetweenTests ==
    [][/\ pc = "callback" =>
                /\ Callback
                /\ pc' \in {"append", "raised"}
                /\ calls' = calls
                /\ instances' = instances
                /\ pc' = "append" => result' = result
                /\ result[1].test = index
                /\ instances = index
                /\ calls[Len(calls)].test = index
                /\ callback = "update" => (test' = test + 1 /\ test' = index)
       /\ Len(calls') > Len(calls) =>
                /\ pc = "test_run"
                /\ index = instances + 1
                /\ \A k \in (Len(calls) + 1)..Len(calls') : calls'[k].test = index
                /\ callback = "update" => test = instances
       /\ (pc = "test_run" /\ pc' # "raised") => (pc' = "callback" /\ Len(result') = 1)
       /\ pc = "append" => (callback = "update" => test = index)
       /\ (SuiteRunReturns /\ callback = "update") =>
                (test' = Len(Recorded') /\ test' = instances')]_vars

\* The third test has run while two callbacks have returned, and its own
\* callback is about to be called.
C17_Witness ==
    /\ pc = "callback"
    /\ callback = "update"
    /\ index = 3
    /\ instances = 3
    /\ test = 2
    /\ Len(Recorded) = 2
    /\ result[1].test = 3

\* The progress indicators of a transcript, in the order rendered.
IsIndicator(e) == e.op = "write_color"

Indicators(T) == SelectSeq(T, IsIndicator)

\* C18: within a suite run the Runner renders (0/N) at the start, one
\* indicator per callback whose completed count is one more than the one
\* before, and the last one again when the suite has finished; an indicator
\* is green iff no Failure was reported before it was rendered and red
\* otherwise, so that no green indicator follows a red one.
C18_GreenThenRed ==
    (callback = "update" /\ Transcript # <<>>) =>
        LET I == Indicators(Transcript)
            N == Notified
            Shown(i) == IF i <= Len(N) + 1 THEN i - 1 ELSE Len(N)
        IN  /\ Len(I) = (IF DiagnosticsWritten(Transcript) THEN Len(N) + 2
                         ELSE Len(N) + 1)
            /\ \A i \in 1..Len(I) :
                    /\ I[i].text = <<Status(Shown(i), num_tests)>>
                    /\ I[i].color \in {"green", "red"}
                    /\ I[i].color = "red" <=> FailuresIn(SubSeq(N, 1, Shown(i))) # {}
            /\ \A i, j \in 1..Len(I) :
                    (i < j /\ I[i].color = "red") => I[j].color = "red"

\* Three tests, the second fails, stop_on_error false: (0/3), (1/3), (2/3),
\* (3/3), (3/3), red from (2/3) on.
C18_Witness ==
    LET I == Indicators(Transcript)
    IN  /\ pc = "idle"
        /\ callback = "update"
        /\ Len(I) = 5
        /\ [i \in 1..5 |-> I[i].text[1]] = <<"(0/3)", "(1/3)", "(2/3)", "(3/3)", "(3/3)">>
        /\ [i \in 1..5 |-> I[i].color] = <<"green", "green", "red", "red", "red">>
        /\ Recorded[3].cls = "Success"

SuccessesIn(rs) == {i \in 1..Len(rs) : rs[i].cls = "Success"}

\* C19: Runner.run takes its suites one after another: a suite begins when
\* the call is made or the suite before it has been reported.  When a suite
\* begins, the success, failure and completed counts are zero and no first
\* failure is kept, whatever the suite before left: its first indicator is
\* (0/N) in green, the counts are those of its own results, and each suite
\* run has at most one diagnostic block, shown iff that run had a failure.
C19_CountersResetPerSuite ==
    [][/\ pc' = "suite_begin" => (pc = "suite_end" \/ (pc = "idle" /\ queue' \in 1..MaxSuites))
       /\ pc = "suite_end" => (pc' = "suite_begin" <=> queue > 0)
       /\ pc = "suite_begin" =>
                /\ successes' = 0 /\ failures' = 0 /\ test' = 0
                /\ first_failure' = <<>>
                /\ Cardinality(Headers') = Cardinality(Headers) + 1
                /\ sink'[Len(sink')].text = <<Status(0, Len(tests))>>
                /\ sink'[Len(sink')].color = "green"
                /\ pc' = "test_run" => queue' = queue - 1
       /\ (callback' = "update" /\ pc' \in {"test_run", "callback", "append", "suite_end"}) =>
                /\ successes' = Cardinality(SuccessesIn(Notified'))
                /\ failures' = Cardinality(FailuresIn(Notified'))
                /\ test' = Len(Notified')
       /\ pc = "suite_end" =>
                /\ Details(Transcript') # {} <=> FailuresIn(Recorded) # {}
                /\ Cardinality(Details(sink')) =
                        Cardinality(Details(sink)) + (IF FailuresIn(Recorded) # {} THEN 1 ELSE 0)]_vars

\* Runner.run(s, s), stop_on_error false: the first run had a failure and
\* its block is in the sink; in the second run the first test has passed,
\* no failure is counted and (1/N) is green.
C19_Witness ==
    /\ pc = "append"
    /\ callback = "update"
    /\ base > 0
    /\ FailuresIn(SubSeq(results, 1, base)) # {}
    /\ Details(sink) # {}
    /\ Cardinality(Headers) = 2
    /\ failures = 0
    /\ first_failure = <<>>
    /\ test = 1
    /\ sink[Len(sink)].text = <<Status(1, Len(tests))>>
    /\ sink[Len(sink)].color = "green"

\* The calls that were given the helper instance.
WithHelper == {k \in 1..Len(calls) : calls[k].arg # 0}

\* C20: each Test.run makes a helper instance of its own: the calls of one
\* Test.run that take a parameter are given one and the same instance, the
\* calls of two Test.runs are never given the same instance, and a function
\* without parameter is given none.  What a test's setup, body or teardown
\* stores on or deletes from its instance is not seen by another test: two
\* tests of one function have equal results wherever they stand in the run.
C20_FreshHelperPerTest ==
    /\ \A k, l \in WithHelper :
            calls[k].arg = calls[l].arg <=> calls[k].test = calls[l].test
    /\ \A k \in 1..Len(calls) :
            /\ calls[k].arg # 0 <=> NumArgs(calls[k].name) = 1
            /\ calls[k].arg \in 0..instances
    /\ pc \in {"callback", "append"} => instances = index
    /\ pc = "test_run" => instances = index - 1
    /\ \A i, j \in 1..Len(Recorded) :
            tests[i].function = tests[j].function =>
                /\ Recorded[i].cls = Recorded[j].cls
                /\ Recorded[i].output = Recorded[j].output

\* CustomHelper, print_status_with_helper twice, teardown_with_helper: the
\* teardown of the first test has deleted the state of its instance, the
\* second test has read the state of its own and passed.
C20_Witness ==
    /\ pc = "callback"
    /\ index = 2
    /\ helper.cls = "CustomHelper"
    /\ setup = NullFunction
    /\ teardown.name = "teardown_with_helper"
    /\ tests[1].function.name = "print_status_with_helper"
    /\ tests[2].function.name = "print_status_with_helper"
    /\ Recorded[1].cls = "Success"
    /\ result[1].cls = "Success"
    /\ result[1].output = <<CustomState, "Successful test executed.",
                            "Tearing down a helper object.">>
    /\ calls[2].arg = 1 /\ calls[3].arg = 1
    /\ calls[5].arg = 2 /\ calls[6].arg = 2

\* C21: a registration executes nothing: no function is called, no helper
\* is instantiated, the results and finished are what they were, and only
\* the binding registered changes: test appends one Test, skip one skip
\* record, setup, teardown and helper replace the suite-wide value.  A
\* function registered twice makes two Tests, and a run that reaches both
\* runs both.
C21_RegistrationOnlyBinds ==
    [][/\ pc = "idle" /\ pc' \in {"idle", "raised"} /\ ~SuiteIter =>
                UNCHANGED <<calls, instances, results, finished, sink, runnerVars>>
       /\ \A f \in TestFunctions :
            SuiteTest(f) =>
                /\ UNCHANGED <<skips, setup, teardown, helper>>
                /\ ArityOk(f) => (tests' = Append(tests, TestInit(f)) /\ pc' = "idle")
       /\ \A f \in SkipFunctions :
            SuiteSkip(f) =>
                /\ UNCHANGED <<tests, setup, teardown, helper>>
                /\ ArityOk(f) => (skips' = Append(skips, FunctionInit(f, "skipped"))
                                  /\ pc' = "idle")
       /\ \A f \in SetupFunctions :
            SuiteSetup(f) =>
                /\ UNCHANGED <<tests, skips, teardown, helper>>
                /\ ArityOk(f) => (setup' = FunctionInit(f, "setup") /\ pc' = "idle")
       /\ \A f \in TeardownFunctions :
            SuiteTeardown(f) =>
                /\ UNCHANGED <<tests, skips, setup, helper>>
                /\ ArityOk(f) => (teardown' = FunctionInit(f, "teardown") /\ pc' = "idle")
       /\ \A cls \in HelperClasses :
            SuiteHelper(cls) =>
                /\ UNCHANGED <<tests, skips, setup, teardown>>
                /\ helper' = HelperInit(cls) /\ pc' = "idle"
       /\ SuiteRunReturns =>
                \A t \in 1..Len(Recorded') :
                    /\ Recorded'[t].test = t
                    /\ \E k \in 1..Len(calls') :
                            calls'[k].test = t /\ calls'[k].role = "setup"]_vars

\* print_status was registered twice, then a third test, then a setup was
\* bound: both registrations of print_status have run and have their result.
C21_Witness ==
    /\ pc = "idle"
    /\ finished
    /\ rebound
    /\ Len(tests) = 3
    /\ tests[1] = tests[2]
    /\ tests[1].function.name = "print_status"
    /\ Len(Recorded) = 3
    /\ Recorded[1].test = 1 /\ Recorded[2].test = 2
    /\ Cardinality({k \in 1..Len(calls) : calls[k].role = "test"
                                          /\ calls[k].name = "print_status"}) >= 2

\* C22: Test.run leaves the output channel as it found it, on every way
\* out: when it returns a Success and when it returns a Failure because
\* setup, test function or teardown raised; also when it runs inside capture
\* scopes of its caller, which are then open as before and have captured
\* nothing of what the test printed.
C22_CaptureReleased ==
    [][pc = "test_run" =>
            /\ channel' = channel
            /\ Len(channel') = Len(channel)
            /\ (pc' = "callback" /\ result'[1].output # <<>>) =>
                    \A d \in 1..Len(channel') :
                        \A i \in 1..Len(channel'[d]) : channel'[d][i] \notin UserLines]_vars

\* Inside two capture scopes of the caller a test has printed and failed in
\* its teardown: the two scopes are open and empty.
C22_Witness ==
    /\ pc = "callback"
    /\ Len(channel) = 2
    /\ channel = <<<<>>, <<>>>>
    /\ result[1].cls = "Failure"
    /\ result[1].output # <<>>
    /\ \E k \in CallsOf(result[1].test) :
            calls[k].role = "teardown" /\ calls[k].raised # "none"

\* The wrapped functions the suite holds.
Wrapped ==
    {tests[t].function : t \in 1..Len(tests)} \cup {skips[k] : k \in 1..Len(skips)}
        \cup {setup, teardown}

\* C23: whether a wrapped function is given the context is fixed by its
\* declared parameters when it is wrapped: a function without parameters is
\* always called without argument, a function with one parameter always
\* with the helper instance of its Test.run.  The default setup and teardown
\* have no parameter, print nothing and never raise: with both in place the
\* output of a test is what its own function printed.
C23_ArityDecidesArgument ==
    /\ \A fn \in Wrapped :
            /\ NumArgs(fn.function) \in {0, 1}
            /\ fn.use_helper <=> NumArgs(fn.function) = 1
    /\ NullFunction.use_helper = FALSE
    /\ \A k \in 1..Len(calls) :
            /\ NumArgs(calls[k].name) = 0 => calls[k].arg = 0
            /\ NumArgs(calls[k].name) = 1 => calls[k].arg = calls[k].test
            /\ calls[k].name = NullFunction.name =>
                    (calls[k].arg = 0 /\ calls[k].raised = "none")
    /\ (pc = "callback" /\ setup = NullFunction /\ teardown = NullFunction) =>
            LET f == tests[index].function.name
                given == IF NumArgs(f) = 1 THEN Construct(helper.cls).state ELSE NoAttr
            IN  /\ result[1].output = Body(f, given).out
                /\ Cardinality(CallsOf(index)) = (IF Body(f, given).raised = "none"
                                                  THEN 3 ELSE 2)

\* Default setup and teardown, CustomHelper: the first test takes the helper
\* and was given it, the second takes none and was given none.
C23_Witness ==
    /\ pc = "callback"
    /\ index = 2
    /\ setup = NullFunction
    /\ teardown = NullFunction
    /\ helper.cls = "CustomHelper"
    /\ Len(calls) = 6
    /\ [k \in 1..6 |-> calls[k].name] =
            <<"lambda", "print_status_with_helper", "lambda",
              "lambda", "print_status", "lambda">>
    /\ [k \in 1..6 |-> calls[k].arg] = <<0, 1, 0, 0, 0, 0>>
    /\ result[1].output = <<"Successful test executed.">>

InRunnerSuiteRun == callback = "update" /\ pc \in {"test_run", "callback", "append"}

\* What holds of the counters at every point of a Runner suite run.
RunnerCountersAgree ==
    InRunnerSuiteRun =>
        /\ successes + failures = test
        /\ test <= Len(tests)
        /\ first_failure = <<>> <=> failures = 0
        /\ pc = "append" => test = Len(Recorded) + 1

\* C25: at every point of a Runner suite run successes + failures is the
\* completed count, which is at most the number of registered tests; the
\* first failure is unset iff failures is zero; and when the callback
\* returns, the completed count is the number of results the suite has
\* recorded plus one.
C25_CountersAgree ==
    InRunnerSuiteRun =>
        /\ successes + failures = test
        /\ test <= Len(tests)
        /\ first_failure = <<>> <=> failures = 0
        /\ pc = "append" => test = Len(results) + 1

=============================================================================
